---- MODULE Spec2Model ----
(***************************************************************************)
(* State-machine model of the ollama-downloader download pipeline:         *)
(* manifest fetch, blob fetch to temporary files, digest check and move    *)
(* into the blob store, manifest save, inventory check, and the clean-up   *)
(* of the "unnecessary files" set.                                         *)
(*                                                                         *)
(* Three generations of download_model live in the repository and are      *)
(* modelled side by side (variable `variant`):                             *)
(*   "downloader" - downloader/model_downloader.py + downloader/           *)
(*                  downloader.py (class-level set, guard flag)            *)
(*   "legacy"     - model_downloader.py (instance-owned set, no guard;     *)
(*                  hf_model_downloader.py has the same copy loop)         *)
(*   "cli"        - cli.py download (no set at all)                        *)
(***************************************************************************)
EXTENDS Integers, Sequences, FiniteSets, TLC

\* ------------------------------------------------------------------ bounds
MaxLayers == 1
MaxDeleteFailures == 1

\* --------------------------------------------------------------- universe
Variants == {"downloader", "legacy", "cli"}

\* The downloader objects that live in one process.
Instances == {"ollama", "hf"}

\* The instance through which the modelled download runs.
Main == "ollama"

\* One symbol stands for a whole 64-character hexadecimal SHA-256 value; the
\* blobs of a manifest have the first, second, ... of these values.
HexNames == <<"a", "b", "c", "d">>

Hex == {HexNames[k] : k \in 1..(MaxLayers + 1)}

\* A digest string as the registry writes it: "sha256:" followed by the hex.
sha256_prefix == <<"s", "h", "a", "2", "5", "6", ":">>

NamedDigest(h) == sha256_prefix \o <<h>>

\* The digest field of a manifest is any string ("digest: str"): this one
\* names another algorithm in front of the same hex value.
sha512_prefix == <<"s", "h", "a", "5", "1", "2", ":">>

ForeignDigest == sha512_prefix \o <<HexNames[1]>>

NamedDigests == {NamedDigest(h) : h \in Hex} \cup {ForeignDigest}

\* Blob payloads: each of the values above is the hash of the payload of the
\* same name, "x" is a payload that no manifest declares, "partial" is a
\* truncated transfer.
Payloads == Hex \cup {"x", "partial"}

sha256_hexdigest(payload) == <<payload>>

\* named_digest[7:]
Drop7(s) == SubSeq(s, 8, Len(s))

\* str.replace(old, new) on a string held as a sequence of characters
Replace(s, old, new) == [i \in DOMAIN s |-> IF s[i] = old THEN new ELSE s[i]]

\* ------------------------------------------------------------------ paths
\* A path is a sequence of components, a component a sequence of characters.
Parent(p) == SubSeq(p, 1, Len(p) - 1)

Prefixes(p) == {SubSeq(p, 1, k) : k \in 1..Len(p)}

TempName(i) == [k \in 1..i |-> "t"]

TempPath(i) == << <<"tmp">>, TempName(i) >>

blobs_dir == << <<"blobs">> >>

BlobPath(named_digest) == blobs_dir \o << Replace(named_digest, ":", "-") >>

manifests_toplevel_dir == << <<"manifests">> >>

manifests_dir ==
    manifests_toplevel_dir \o << <<"host">>, <<"library">>, <<"model">> >>

manifest_file == manifests_dir \o << <<"tag">> >>

\* A manifest: the config digest followed by the layer digests, in order.
\* The registry serves manifests whose config is blob "a" and which have at
\* most MaxLayers layers, each a blob of its own, and one manifest whose
\* config digest names another algorithm.
Manifests ==
    { [k \in 1..n |-> NamedDigest(HexNames[k])] : n \in 1..(MaxLayers + 1) }
        \cup { <<ForeignDigest>> }

NoManifest == << >>

\* A manifest document as the registry sends it: the keys of the top-level
\* object, the keys of its "config" object, and the digests it lists.
ImageManifest_required == {"schemaVersion", "mediaType", "config", "layers"}

ImageManifestConfig_required == {"mediaType", "size", "digest"}

Document(m) ==
    [ keys |-> ImageManifest_required,
      config_keys |-> ImageManifestConfig_required,
      digests |-> m ]

NoDocument == [keys |-> {}, config_keys |-> {}, digests |-> NoManifest]

\* The documents of the registry: each manifest in full; the config-only
\* manifest (its "layers" list is empty) with keys the models do not
\* declare; and the same manifest with one required key left out.
ManifestDocuments ==
    LET full == Document(<<NamedDigest(HexNames[1])>>) IN
    {Document(m) : m \in Manifests}
        \cup { [full EXCEPT !.keys = @ \cup {"annotations"},
                            !.config_keys = @ \cup {"urls"}],
               [full EXCEPT !.keys = @ \ {"schemaVersion"}],
               [full EXCEPT !.keys = @ \ {"mediaType"}],
               [full EXCEPT !.config_keys = @ \ {"digest"}] }

\* ------------------------------------------------------------------ state
VARIABLES
    variant,                     \* which generation of the code runs
    remove_downloaded_on_error,  \* settings.ollama_server (the default
                                 \* where the code never reads it)
    user_group,                  \* settings.ollama_library: TRUE when set
    files,                       \* regular files present on disk
    dirs,                        \* directories present on disk
    content,                     \* payload of each temp / blob file
    mfile_data,                  \* text of the manifest file on disk
    unnecessary_files,           \* the pending-work set of each instance
    cleanup_running,             \* the guard flag seen by each instance
    pc,                          \* position of the main path
    manifest,                    \* the parsed manifest of this run
    idx,                         \* loop index of download_model
    files_to_be_copied,          \* (source, named_digest, computed_digest)
    cpc, cself, todo, cdirs,     \* the clean-up executions, per context
    reported,                    \* paths whose removal failure was logged
    snapshot, disk_at,           \* history: each clean-up's list and start disk
    result,                      \* how download_model ended
    delete_failures,             \* removal errors injected so far
    trace,                       \* history: pipeline operations, in order
    pre_files, pre_dirs,         \* history: the disk before the run
    chowned,                     \* paths shutil.chown has been applied to
    mode_0640,                   \* files os.chmod(..., 0o640) was applied to
    last_response,               \* history: the last blob response
    manifest_json,               \* history: the manifest document received
    exit_code,                   \* the exit status, once the process ended
    library_models,              \* list_models_tags: self.library_models
    models_tags,                 \* self.models_tags, model |-> tags
    models_tags_cache,           \* the cache file: << >> or <<dictionary>>
    lpc, lidx,                   \* position of list_models_tags and its loop
    calls,                       \* calls of list_models_tags made so far
    failed_pages,                \* history: models whose tag page failed
    model_identifier,            \* the identifier given to download_model
    registry_base_url,           \* settings.ollama_library.registry_base_url
    rpc,                         \* "idle", "given", "parsed" or "built"
    ref,                         \* what the parse of the identifier gave
    urls,                        \* the manifest and blob request URLs
    heap,                        \* the AppSettings objects of the process
    held,                        \* the references handed out, as heap indices
    cached_settings,             \* the process-wide instance, 0 when unset
    libs,                        \* the OllamaLibrary objects of the process
    home_models_is_dir,          \* whether "~/.ollama/models" is a directory
    last_op,                     \* history: the last OllamaLibrary operation
    models_list                  \* the listing download_model ends with

fsvars == <<files, dirs, content, mfile_data>>

settingvars == <<variant, remove_downloaded_on_error, user_group>>

runvars == <<manifest, idx, files_to_be_copied>>

cleanvars ==
    <<cpc, cself, todo, cdirs, reported, snapshot, disk_at, delete_failures>>

histvars ==
    <<pre_files, pre_dirs, manifest_json, models_list, last_response>>

permvars == <<chowned, mode_0640>>

tagvars ==
    <<library_models, models_tags, models_tags_cache, lpc, lidx, calls,
      failed_pages>>

refvars == <<model_identifier, registry_base_url, rpc, ref, urls>>

appvars == <<heap, held, cached_settings>>

libvars == <<libs, home_models_is_dir, last_op>>

auxvars == <<tagvars, refvars, appvars, libvars>>

downloadvars ==
    <<settingvars, fsvars, unnecessary_files, cleanup_running, pc, runvars,
      cleanvars, result, trace, histvars, permvars, exit_code>>

vars == <<downloadvars, auxvars>>

Contexts == {"main", "handler"}

BlobFiles ==
    {TempPath(i) : i \in 1..(MaxLayers + 1)} \cup {BlobPath(d) : d \in NamedDigests}

\* The set object an instance reaches through its attribute: the Downloader
\* subclasses share one class-level set, the older classes own theirs.
SetOf(inst) == IF variant = "downloader" THEN Main ELSE inst

Tracked(inst) == unnecessary_files[SetOf(inst)]

SetTracked(inst, s) == [unnecessary_files EXCEPT ![SetOf(inst)] = s]

\* The stores a run can start from: no store at all; a regular file where
\* the blobs directory should be; an empty blob store without or with the
\* top-level manifests directory; a store that holds blob "a" and the
\* directories of the model, without and with its manifest file.
StoreInits ==
    LET blob_a == BlobPath(NamedDigest("a"))
        tmp == << <<"tmp">> >>
        none == [p \in BlobFiles |-> "none"]
        with_a == [none EXCEPT ![blob_a] = "a"]
    IN  { [files |-> {}, dirs |-> {tmp}, content |-> none,
           mfile_data |-> NoManifest],
          [files |-> {blobs_dir}, dirs |-> {tmp}, content |-> none,
           mfile_data |-> NoManifest],
          [files |-> {}, dirs |-> {tmp, blobs_dir}, content |-> none,
           mfile_data |-> NoManifest],
          [files |-> {}, dirs |-> {tmp, blobs_dir, manifests_toplevel_dir},
           content |-> none, mfile_data |-> NoManifest],
          [files |-> {blob_a},
           dirs |-> {tmp, blobs_dir} \cup Prefixes(manifests_dir),
           content |-> with_a, mfile_data |-> NoManifest],
          [files |-> {blob_a, manifest_file},
           dirs |-> {tmp, blobs_dir} \cup Prefixes(manifests_dir),
           content |-> with_a, mfile_data |-> <<NamedDigest("a")>>] }

Disk ==
    [files |-> files, dirs |-> dirs, content |-> content, mfile_data |-> mfile_data]

DownloadInit ==
    /\ variant \in Variants
    /\ remove_downloaded_on_error \in
          (IF variant = "downloader" THEN BOOLEAN ELSE {TRUE})
    /\ user_group \in BOOLEAN
    /\ \E s \in StoreInits :
        /\ files = s.files
        /\ dirs = s.dirs
        /\ content = s.content
        /\ mfile_data = s.mfile_data
        /\ pre_files = s.files
        /\ pre_dirs = s.dirs
    /\ unnecessary_files = [i \in Instances |-> {}]
    /\ cleanup_running = [i \in Instances |-> FALSE]
    /\ pc = "fetch_manifest"
    /\ manifest = NoManifest
    /\ idx = 1
    /\ files_to_be_copied = << >>
    /\ cpc = [c \in Contexts |-> "idle"]
    /\ cself = [c \in Contexts |-> Main]
    /\ todo = [c \in Contexts |-> {}]
    /\ cdirs = [c \in Contexts |-> {}]
    /\ reported = {}
    /\ snapshot = [c \in Contexts |-> {}]
    /\ disk_at = [c \in Contexts |-> Disk]
    /\ result = "none"
    /\ delete_failures = 0
    /\ trace = << >>
    /\ models_list = {}
    /\ chowned = {}
    /\ last_response = "none"
    /\ manifest_json = NoDocument
    /\ exit_code = << >>
    /\ mode_0640 = {}

\* A dictionary is a function whose domain is its set of keys.
EmptyDict == [k \in {} |-> {}]

\* OllamaModelDownloader.__init__: "self.models_tags = {}" and
\* "self.library_models = []"; no listing is under way.
TagsIdle ==
    /\ library_models = << >>
    /\ models_tags = EmptyDict
    /\ models_tags_cache = << >>
    /\ lpc = "idle"
    /\ lidx = 1
    /\ calls = 0
    /\ failed_pages = {}

\* Strings are sequences of characters; a word that is never taken apart
\* stands as one character.
default_registry_base_url ==
    <<"https:", "/", "/", "registry.ollama.ai", "/", "v2", "/", "library", "/">>

NoRef == [kind |-> "none", name |-> << >>, tag |-> << >>]

NoUrls == [manifest |-> << >>, blob |-> << >>]

\* No identifier has been given.
RefsIdle ==
    /\ model_identifier = << >>
    /\ registry_base_url = default_registry_base_url
    /\ rpc = "idle"
    /\ ref = NoRef
    /\ urls = NoUrls

\* No settings object has been made.
SettingsIdle ==
    /\ heap = << >>
    /\ held = << >>
    /\ cached_settings = 0

NoOp == [op |-> "none", lib |-> 0, path |-> "", raised |-> FALSE, before |-> ""]

LibraryIdle ==
    /\ libs = << >>
    /\ home_models_is_dir = FALSE
    /\ last_op = NoOp

Init ==
    /\ DownloadInit
    /\ TagsIdle
    /\ RefsIdle
    /\ SettingsIdle
    /\ LibraryIdle

\* The download side at rest, for the specifications of the other operations.
DownloadIdle ==
    /\ DownloadInit
    /\ variant = "downloader"
    /\ remove_downloaded_on_error
    /\ ~user_group
    /\ files = {}
    /\ dirs = { << <<"tmp">> >> }

\* The main path runs only while no signal handler is executing.
MainRuns == cpc["handler"] = "idle"

Event(op, i, ok) == [op |-> op, i |-> i, ok |-> ok]

\* ------------------------------------------------- download_model helpers
\* What the registry does with one blob request.
FetchOutcomes ==
    {"ok", "corrupt", "http_error", "no_content_length", "stream_error"}

FetchRaises(outcome) == outcome \notin {"ok", "corrupt"}

\* The bytes that end up in the temporary file.
Received(named_digest, outcome) ==
    CASE outcome = "ok" -> named_digest[Len(named_digest)]
      [] outcome = "corrupt" -> "x"
      [] OTHER -> "partial"

\* _download_model_blob: the temporary file is created and tracked before
\* the request is made, and is kept whatever the request does.
download_model_blob(inst, i, named_digest, outcome) ==
    LET source == TempPath(i)
        payload == Received(named_digest, outcome)
    IN  [ raised |-> FetchRaises(outcome),
          source |-> source,
          computed_digest |-> sha256_hexdigest(payload),
          files |-> files \cup {source},
          content |-> [content EXCEPT ![source] = payload],
          unnecessary_files |-> SetTracked(inst, Tracked(inst) \cup {source}) ]

CopyOutcomes == {"ok", "chown_error"}

\* Mutation of os_path_isdir: the test is skipped.
os_path_isdir_unchecked(path) == TRUE

\* "os.path.isdir(blobs_dir)"
os_path_isdir(path) == path \in dirs

\* Mutation of digest_mismatch: the comparison is skipped.
digest_mismatch_never(named_digest, computed_digest) == FALSE

\* "if computed_digest != named_digest[7:]"
digest_mismatch(named_digest, computed_digest) ==
    computed_digest # Drop7(named_digest)

\* Mutation of tracked_after_copy: the target file is not added.
tracked_after_copy_source_only(tracked, source, target_file) ==
    tracked \ {source}

\* "self._unnecessary_files.remove(source)" and
\* "self._unnecessary_files.add(target_file)"
tracked_after_copy(tracked, source, target_file) ==
    (tracked \ {source}) \cup {target_file}

\* _copy_blob_to_destination
copy_blob_to_destination(inst, source, named_digest, computed_digest, outcome) ==
    LET target_file == BlobPath(named_digest)
        same == [ files |-> files, content |-> content,
                  unnecessary_files |-> unnecessary_files,
                  chowned |-> chowned, mode_0640 |-> mode_0640 ]
        chown_ok == user_group /\ outcome # "chown_error"
        new_chowned == IF chown_ok THEN chowned \cup {target_file, blobs_dir}
                       ELSE chowned
        new_mode == IF chown_ok THEN mode_0640 \cup {target_file}
                    ELSE mode_0640
        moved_files == (files \ {source}) \cup {target_file}
        moved_content ==
            [p \in BlobFiles |->
                IF p = target_file THEN content[source]
                ELSE IF p = source THEN "none" ELSE content[p]]
    IN  IF digest_mismatch(named_digest, computed_digest)
        THEN [status |-> "false"] @@ same
        ELSE IF ~os_path_isdir(blobs_dir)
        THEN [status |-> "false"] @@ same
        ELSE IF source \notin files
        THEN [status |-> "raised"] @@ same
        ELSE IF (user_group /\ outcome = "chown_error")
                \/ source \notin Tracked(inst)
        THEN [ status |-> "raised", files |-> moved_files,
               content |-> moved_content,
               unnecessary_files |-> unnecessary_files,
               chowned |-> new_chowned, mode_0640 |-> new_mode ]
        ELSE [ status |-> "ok", files |-> moved_files,
               content |-> moved_content,
               chowned |-> new_chowned, mode_0640 |-> new_mode,
               unnecessary_files |->
                   SetTracked(inst, tracked_after_copy(Tracked(inst), source,
                                                       target_file)) ]

SaveOutcomes == {"ok", "chown_error"}

\* _save_manifest_to_destination
save_manifest_to_destination(inst, data, outcome) ==
    LET created == manifests_dir \notin dirs
        new_dirs == IF created THEN dirs \cup Prefixes(manifests_dir) ELSE dirs
        after_mkdir == IF created THEN Tracked(inst) \cup {manifests_dir}
                       ELSE Tracked(inst)
        raised == user_group /\ outcome = "chown_error"
    IN  [ raised |-> raised,
          dirs |-> new_dirs,
          files |-> files \cup {manifest_file},
          mfile_data |-> data,
          chowned |-> IF user_group /\ ~raised
                      THEN chowned \cup {manifest_file, manifests_dir,
                                         manifests_toplevel_dir}
                      ELSE chowned,
          unnecessary_files |->
              SetTracked(inst, IF raised THEN after_mkdir
                               ELSE after_mkdir \cup {manifest_file}) ]

\* The inventory listing of the Ollama server: each entry carries its name
\* and its modified_at, held as seconds relative to the manifest save.
\* "datetime.timedelta(minutes=1)"
one_minute == 60

ModelName == "model:tag"

Deltas == {-90, -30, 30, 59, 61, 90}

InventoryEntries ==
    [model : {ModelName}, delta : Deltas]
        \cup {[model |-> "other:tag", delta |-> 30]}

Inventories == {{}} \cup {{e} : e \in InventoryEntries}

\* Mutation of Abs: the sign of the difference is kept.
Abs_signed(n) == n

\* "abs(model_info.modified_at - ts_approximate_manifest_save)"
Abs(n) == IF n < 0 THEN -n ELSE n

\* Mutation of within_a_minute: every difference passes.
within_any_time(delta) == TRUE

\* "abs(...) < datetime.timedelta(minutes=1)"
within_a_minute(delta) == Abs(delta) < one_minute

\* Mutation of found_model: the name of the entry is not compared.
found_model_any_name(inventory) ==
    \E e \in inventory : within_a_minute(e.delta)

\* The loop over models_list.models: the first entry with the model's name
\* and a modified_at less than a minute away from the manifest save.
found_model(inventory) ==
    \E e \in inventory : e.model = ModelName /\ within_a_minute(e.delta)

\* Mutation of errors_tolerated: the set is cleared whatever the setting.
errors_tolerated_always(remove_on_error) == TRUE

\* "if not self.settings.ollama_server.remove_downloaded_on_error"
errors_tolerated(remove_on_error) == ~remove_on_error

\* Mutation of clear: the set keeps its members.
clear_nothing(tracked) == tracked

\* "self._unnecessary_files.clear()"
clear(tracked) == {}

\* --------------------------------------------------- download_model steps
ClassVariants == {"downloader", "legacy"}

ManifestOutcomes == {"ok", "http_error"}

\* Mutation of model_validate_json: every document is accepted.
model_validate_json_lenient(document) == TRUE

\* "ImageManifest.model_validate_json(manifest_json, ...)": every field
\* declared with "..." must be present; keys the models do not declare are
\* ignored.
model_validate_json(document) ==
    /\ ImageManifest_required \subseteq document.keys
    /\ ImageManifestConfig_required \subseteq document.config_keys

\* Mutation of manifest_raises: no exception leaves the manifest step.
manifest_raises_never(outcome, document) == FALSE

\* "response.raise_for_status()" in _fetch_manifest and the ValidationError
\* of ImageManifest.model_validate_json
manifest_raises(outcome, document) ==
    outcome # "ok" \/ ~model_validate_json(document)

\* download_model: _fetch_manifest and ImageManifest.model_validate_json
FetchManifest ==
    /\ pc = "fetch_manifest"
    /\ MainRuns
    /\ \E outcome \in ManifestOutcomes, document \in ManifestDocuments :
        /\ manifest_json' = IF outcome = "ok" THEN document ELSE NoDocument
        /\ trace' = Append(trace, Event("fetch_manifest", 0,
                                        /\ outcome = "ok"
                                        /\ ~manifest_raises(outcome, document)))
        /\ IF manifest_raises(outcome, document)
           THEN /\ pc' = "raised"
                /\ result' = "failure"
                /\ UNCHANGED manifest
           ELSE /\ manifest' = document.digests
                /\ pc' = "download"
                /\ UNCHANGED result
    /\ UNCHANGED <<auxvars, settingvars, exit_code, permvars, fsvars, unnecessary_files,
                   cleanup_running, idx, files_to_be_copied, cleanvars,
                   pre_files, pre_dirs, models_list, last_response>>

\* Mutation of queue_for_copy: the entry is put at the head of the list.
queue_for_copy_first(queue, entry) == <<entry>> \o queue

\* "files_to_be_copied.append(...)"
queue_for_copy(queue, entry) == Append(queue, entry)

\* download_model: the config blob and then each layer is fetched to a
\* temporary file and queued for the copy loop.
DownloadBlob ==
    /\ pc = "download"
    /\ MainRuns
    /\ variant \in ClassVariants
    /\ \E outcome \in FetchOutcomes :
        LET r == download_model_blob(Main, idx, manifest[idx], outcome) IN
        /\ files' = r.files
        /\ content' = r.content
        /\ unnecessary_files' = r.unnecessary_files
        /\ last_response' = outcome
        /\ trace' = Append(trace, Event("fetch", idx, ~r.raised))
        /\ IF r.raised
           THEN /\ pc' = "raised"
                /\ result' = "failure"
                /\ UNCHANGED <<idx, files_to_be_copied>>
           ELSE /\ files_to_be_copied' =
                      queue_for_copy(files_to_be_copied,
                                     [ source |-> r.source,
                                       named_digest |-> manifest[idx],
                                       computed_digest |-> r.computed_digest ])
                /\ idx' = IF idx < Len(manifest) THEN idx + 1 ELSE 1
                /\ pc' = IF idx < Len(manifest) THEN "download" ELSE "copy"
                /\ UNCHANGED result
    /\ UNCHANGED <<auxvars, settingvars, exit_code, permvars, dirs, mfile_data, cleanup_running,
                   manifest, cleanvars, pre_files, pre_dirs, manifest_json, models_list>>

\* The loop over files_to_be_copied, one iteration; `fatal` says whether a
\* False status from the copy ends download_model.
CopyStep(fatal) ==
    /\ pc = "copy"
    /\ MainRuns
    /\ \E outcome \in CopyOutcomes :
        LET e == files_to_be_copied[idx]
            r == copy_blob_to_destination(Main, e.source, e.named_digest,
                                          e.computed_digest, outcome)
            stop == r.status = "raised" \/ (fatal /\ r.status = "false")
        IN
        /\ files' = r.files
        /\ content' = r.content
        /\ unnecessary_files' = r.unnecessary_files
        /\ chowned' = r.chowned
        /\ mode_0640' = r.mode_0640
        /\ trace' = Append(trace, Event("commit", idx, r.status = "ok"))
        /\ IF stop
           THEN /\ pc' = "raised"
                /\ result' = "failure"
                /\ UNCHANGED idx
           ELSE /\ idx' = IF idx < Len(files_to_be_copied) THEN idx + 1 ELSE 1
                /\ pc' = IF idx < Len(files_to_be_copied) THEN "copy"
                         ELSE "save_manifest"
                /\ UNCHANGED result
    /\ UNCHANGED <<auxvars, settingvars, exit_code, dirs, mfile_data, cleanup_running, manifest,
                   files_to_be_copied, cleanvars, histvars>>

\* downloader/model_downloader.py: a failed copy raises RuntimeError.
CopyBlob ==
    /\ variant = "downloader"
    /\ CopyStep(TRUE)

\* model_downloader.py and hf_model_downloader.py: a failed copy is logged
\* and the loop goes on.
LegacyCopyBlob ==
    /\ variant = "legacy"
    /\ CopyStep(FALSE)

\* download_model: the manifest is saved once the copy loop is over.
SaveManifest ==
    /\ pc = "save_manifest"
    /\ MainRuns
    /\ variant \in ClassVariants
    /\ \E outcome \in SaveOutcomes :
        LET r == save_manifest_to_destination(Main, manifest, outcome) IN
        /\ files' = r.files
        /\ dirs' = r.dirs
        /\ mfile_data' = r.mfile_data
        /\ unnecessary_files' = r.unnecessary_files
        /\ chowned' = r.chowned
        /\ trace' = Append(trace, Event("manifest", 0, ~r.raised))
        /\ IF r.raised
           THEN pc' = "raised" /\ result' = "failure"
           ELSE /\ pc' = IF variant = "downloader" THEN "tolerate"
                         ELSE "inventory"
                /\ UNCHANGED result
    /\ UNCHANGED <<auxvars, settingvars, exit_code, mode_0640, content, cleanup_running, runvars,
                   cleanvars, histvars>>

\* download_model: "Clear the list of unnecessary files before this if
\* errors henceforth are to be tolerated."
TolerateErrors ==
    /\ pc = "tolerate"
    /\ MainRuns
    /\ IF errors_tolerated(remove_downloaded_on_error)
       THEN /\ unnecessary_files' = SetTracked(Main, clear(Tracked(Main)))
            /\ trace' = Append(trace, Event("clear", 0, TRUE))
       ELSE UNCHANGED <<unnecessary_files, trace>>
    /\ pc' = "inventory"
    /\ UNCHANGED <<auxvars, settingvars, exit_code, permvars, fsvars, cleanup_running, runvars, cleanvars,
                   result, histvars>>

InventoryOutcomes == {"listed", "unreachable"}

\* download_model: the model is looked up in the server's listing; the set
\* is cleared when it is found.
InventoryCheck ==
    /\ pc = "inventory"
    /\ MainRuns
    /\ variant \in ClassVariants
    /\ \E outcome \in InventoryOutcomes, inventory \in Inventories :
        /\ models_list' = IF outcome = "listed" THEN inventory ELSE {}
        /\ IF outcome = "listed" /\ found_model(inventory)
           THEN /\ unnecessary_files' = SetTracked(Main, clear(Tracked(Main)))
                /\ trace' = Append(Append(trace, Event("inventory", 0, TRUE)),
                                   Event("clear", 0, TRUE))
                /\ pc' = "returned"
                /\ result' = "success"
           ELSE /\ trace' = Append(trace, Event("inventory", 0, FALSE))
                /\ pc' = "raised"
                /\ result' = "failure"
                /\ UNCHANGED unnecessary_files
    /\ UNCHANGED <<auxvars, settingvars, exit_code, permvars, fsvars, cleanup_running, runvars, cleanvars,
                   pre_files, pre_dirs,
                   manifest_json, last_response>>

\* ----------------------------------------------- cleanup_unnecessary_files
\* A context executes its clean-up only while it is the running frame: the
\* main path is suspended while a signal handler runs.
Runs(c) == c = "main" => MainRuns

Guarded == variant = "downloader"

\* Mutation of HasEntries: every directory counts as empty.
HasEntries_never(d) == FALSE

\* os.rmdir raises OSError on a directory that still has an entry.
HasEntries(d) == \E q \in files \cup dirs : Len(q) > 1 /\ Parent(q) = d

\* Mutation of log_failure: the exception is swallowed without a log line.
log_failure_swallowed(logged, path, failed) == logged

\* "except Exception as e: logger.error(...)": a failed removal is logged.
log_failure(logged, path, failed) ==
    IF failed THEN logged \cup {path} ELSE logged

\* "if not self._cleanup_running": the attribute is read on the instance and
\* falls back to the class attribute, which is never assigned and stays False.
CleanupCheck(c) ==
    /\ cpc[c] = "check"
    /\ Runs(c)
    /\ IF Guarded /\ cleanup_running[cself[c]]
       THEN cpc' = [cpc EXCEPT ![c] = "skipped"]
       ELSE cpc' = [cpc EXCEPT ![c] = "begin"]
    /\ UNCHANGED <<auxvars, settingvars, exit_code, permvars, fsvars, unnecessary_files, cleanup_running, pc,
                   runvars, cself, todo, cdirs, reported, snapshot, disk_at,
                   delete_failures, result, trace, histvars>>

\* "self._cleanup_running = True" creates the attribute on the instance;
\* the list of the set's members is taken.
CleanupBegin(c) ==
    /\ cpc[c] = "begin"
    /\ Runs(c)
    /\ cleanup_running' =
          IF Guarded THEN [cleanup_running EXCEPT ![cself[c]] = TRUE]
          ELSE cleanup_running
    /\ todo' = [todo EXCEPT ![c] = Tracked(cself[c])]
    /\ cdirs' = [cdirs EXCEPT ![c] = {}]
    /\ snapshot' = [snapshot EXCEPT ![c] = Tracked(cself[c])]
    /\ disk_at' = [disk_at EXCEPT ![c] = Disk]
    /\ cpc' = [cpc EXCEPT ![c] = "run"]
    /\ trace' = Append(trace, Event("rollback", 0, TRUE))
    /\ UNCHANGED <<auxvars, settingvars, exit_code, permvars, fsvars, unnecessary_files, pc, runvars, cself,
                   reported, delete_failures, result, histvars>>

\* Mutation of remove_or_defer: a directory is removed on the spot, and
\* stays in the set when that fails.
remove_on_the_spot(f, oserr) ==
    IF f \in dirs
    THEN [ fail |-> HasEntries(f), deferred |-> FALSE,
           rmdir |-> ~HasEntries(f) ]
    ELSE [ fail |-> f \notin files \/ oserr, deferred |-> FALSE,
           rmdir |-> FALSE ]

\* The try block of the first loop: os.remove on what is not a directory
\* (it raises on a missing path or on an error of the system), a directory
\* is only collected for the second loop.
remove_or_defer(f, oserr) ==
    IF f \in dirs
    THEN [fail |-> FALSE, deferred |-> TRUE, rmdir |-> FALSE]
    ELSE [fail |-> f \notin files \/ oserr, deferred |-> FALSE, rmdir |-> FALSE]

\* One iteration of the loop over list_of_unnecessary_files.
CleanupFile(c) ==
    /\ cpc[c] = "run"
    /\ Runs(c)
    /\ \E f \in todo[c], oserr \in BOOLEAN :
        LET self == cself[c]
            r == remove_or_defer(f, oserr)
            fail == r.fail
            keyerr == ~fail /\ f \notin Tracked(self)
            removed == f \in files /\ ~fail
        IN
        /\ oserr => (delete_failures < MaxDeleteFailures /\ f \in files)
        /\ delete_failures' = IF oserr THEN delete_failures + 1
                              ELSE delete_failures
        /\ files' = IF removed THEN files \ {f} ELSE files
        /\ dirs' = IF r.rmdir THEN dirs \ {f} ELSE dirs
        /\ content' = IF removed /\ f \in BlobFiles
                      THEN [content EXCEPT ![f] = "none"] ELSE content
        /\ mfile_data' = IF removed /\ f = manifest_file THEN NoManifest
                         ELSE mfile_data
        /\ cdirs' = [cdirs EXCEPT ![c] = IF r.deferred THEN @ \cup {f} ELSE @]
        /\ unnecessary_files' =
              IF fail THEN unnecessary_files
              ELSE SetTracked(self, Tracked(self) \ {f})
        /\ reported' = log_failure(reported, f, fail \/ keyerr)
        /\ todo' = [todo EXCEPT ![c] = @ \ {f}]
    /\ UNCHANGED <<auxvars, settingvars, exit_code, permvars, cleanup_running, pc, runvars, cpc, cself,
                   snapshot, disk_at, result, trace, histvars>>

\* One iteration of the loop over unnecessary_directories: os.rmdir removes
\* an empty directory and raises OSError otherwise.
CleanupDir(c) ==
    /\ cpc[c] = "run"
    /\ Runs(c)
    /\ todo[c] = {}
    /\ \E d \in cdirs[c], oserr \in BOOLEAN :
        LET fail == d \notin dirs \/ HasEntries(d) \/ oserr IN
        /\ oserr => (delete_failures < MaxDeleteFailures
                     /\ d \in dirs /\ ~HasEntries(d))
        /\ delete_failures' = IF oserr THEN delete_failures + 1
                              ELSE delete_failures
        /\ dirs' = IF fail THEN dirs ELSE dirs \ {d}
        /\ reported' = log_failure(reported, d, fail)
        /\ cdirs' = [cdirs EXCEPT ![c] = @ \ {d}]
    /\ UNCHANGED <<auxvars, settingvars, exit_code, permvars, files, content, mfile_data, unnecessary_files,
                   cleanup_running, pc, runvars, cpc, cself, todo, snapshot,
                   disk_at, result, trace, histvars>>

\* "self._cleanup_running = False"
CleanupEnd(c) ==
    /\ cpc[c] = "run"
    /\ Runs(c)
    /\ todo[c] = {}
    /\ cdirs[c] = {}
    /\ cleanup_running' =
          IF Guarded THEN [cleanup_running EXCEPT ![cself[c]] = FALSE]
          ELSE cleanup_running
    /\ cpc' = [cpc EXCEPT ![c] = "done"]
    /\ UNCHANGED <<auxvars, settingvars, exit_code, permvars, fsvars, unnecessary_files, pc, runvars, cself,
                   todo, cdirs, reported, snapshot, disk_at, delete_failures,
                   result, trace, histvars>>

\* ------------------------------------------------------------ cli.py path
\* cli.py _download_model_blob: the temporary file is not recorded anywhere.
cli_download_model_blob(i, named_digest, outcome) ==
    LET source == TempPath(i)
        payload == Received(named_digest, outcome)
    IN  [ raised |-> FetchRaises(outcome),
          source |-> source,
          computed_digest |-> sha256_hexdigest(payload),
          files |-> files \cup {source},
          content |-> [content EXCEPT ![source] = payload] ]

\* cli.py _copy_blob_to_destination (move_instead_of_copy is left True)
cli_copy_blob_to_destination(source, digest, computed_digest, outcome) ==
    LET target_file == BlobPath(digest)
        chown_ok == user_group /\ outcome # "chown_error"
        moved_content ==
            [p \in BlobFiles |->
                IF p = target_file THEN content[source]
                ELSE IF p = source THEN "none" ELSE content[p]]
    IN  IF digest_mismatch(digest, computed_digest) \/ ~os_path_isdir(blobs_dir)
        THEN [ status |-> "false", files |-> files, content |-> content,
               chowned |-> chowned, mode_0640 |-> mode_0640 ]
        ELSE [ status |-> IF user_group /\ outcome = "chown_error"
                          THEN "raised" ELSE "ok",
               files |-> (files \ {source}) \cup {target_file},
               content |-> moved_content,
               chowned |-> IF chown_ok
                           THEN chowned \cup {target_file, blobs_dir}
                           ELSE chowned,
               mode_0640 |-> IF chown_ok THEN mode_0640 \cup {target_file}
                             ELSE mode_0640 ]

\* cli.py download: a blob is fetched ...
CliDownloadBlob ==
    /\ pc = "download"
    /\ MainRuns
    /\ variant = "cli"
    /\ \E outcome \in FetchOutcomes :
        LET r == cli_download_model_blob(idx, manifest[idx], outcome) IN
        /\ files' = r.files
        /\ content' = r.content
        /\ last_response' = outcome
        /\ trace' = Append(trace, Event("fetch", idx, ~r.raised))
        /\ IF r.raised
           THEN /\ pc' = "raised"
                /\ result' = "failure"
                /\ UNCHANGED files_to_be_copied
           ELSE /\ files_to_be_copied' =
                      Append(files_to_be_copied,
                             [ source |-> r.source,
                               named_digest |-> manifest[idx],
                               computed_digest |-> r.computed_digest ])
                /\ pc' = "copy"
                /\ UNCHANGED result
    /\ UNCHANGED <<auxvars, settingvars, exit_code, permvars, dirs, mfile_data, unnecessary_files,
                   cleanup_running, manifest, idx, cleanvars, pre_files,
                   pre_dirs, manifest_json, models_list>>

\* ... and copied at once, before the next blob is fetched; a False status
\* ends the command with sys.exit(1).
CliCopyBlob ==
    /\ pc = "copy"
    /\ MainRuns
    /\ variant = "cli"
    /\ \E outcome \in CopyOutcomes :
        LET e == files_to_be_copied[idx]
            r == cli_copy_blob_to_destination(e.source, e.named_digest,
                                              e.computed_digest, outcome)
        IN
        /\ files' = r.files
        /\ content' = r.content
        /\ chowned' = r.chowned
        /\ mode_0640' = r.mode_0640
        /\ trace' = Append(trace, Event("commit", idx, r.status = "ok"))
        /\ IF r.status # "ok"
           THEN /\ pc' = "raised"
                /\ result' = "failure"
                /\ UNCHANGED idx
           ELSE /\ idx' = IF idx < Len(manifest) THEN idx + 1 ELSE 1
                /\ pc' = IF idx < Len(manifest) THEN "download"
                         ELSE "save_manifest"
                /\ UNCHANGED result
    /\ UNCHANGED <<auxvars, settingvars, exit_code, dirs, mfile_data, unnecessary_files,
                   cleanup_running, manifest, files_to_be_copied, cleanvars,
                   histvars>>

\* cli.py _save_manifest_to_destination, called from download
CliSaveManifest ==
    /\ pc = "save_manifest"
    /\ MainRuns
    /\ variant = "cli"
    /\ \E outcome \in SaveOutcomes :
        LET raised == user_group /\ outcome = "chown_error" IN
        /\ dirs' = dirs \cup Prefixes(manifests_dir)
        /\ files' = files \cup {manifest_file}
        /\ mfile_data' = manifest
        /\ chowned' = IF user_group /\ ~raised
                      THEN chowned \cup {manifest_file, manifests_dir,
                                         manifests_toplevel_dir}
                      ELSE chowned
        /\ trace' = Append(trace, Event("manifest", 0, ~raised))
        /\ IF raised
           THEN pc' = "raised" /\ result' = "failure"
           ELSE pc' = "inventory" /\ UNCHANGED result
    /\ UNCHANGED <<auxvars, settingvars, exit_code, mode_0640, content, unnecessary_files,
                   cleanup_running, runvars, cleanvars, histvars>>

\* cli.py download: the inventory lookup
CliInventoryCheck ==
    /\ pc = "inventory"
    /\ MainRuns
    /\ variant = "cli"
    /\ \E outcome \in InventoryOutcomes, inventory \in Inventories :
        LET ok == outcome = "listed" /\ found_model(inventory) IN
        /\ models_list' = IF outcome = "listed" THEN inventory ELSE {}
        /\ trace' = Append(trace, Event("inventory", 0, ok))
        /\ pc' = IF ok THEN "returned" ELSE "raised"
        /\ result' = IF ok THEN "success" ELSE "failure"
    /\ UNCHANGED <<auxvars, settingvars, exit_code, permvars, fsvars, unnecessary_files, cleanup_running,
                   runvars, cleanvars, pre_files, pre_dirs,
                   manifest_json, last_response>>

\* cli.py download / main: sys.exit(1) on every failure; an interrupt is a
\* KeyboardInterrupt that no handler of main catches.
CliExit ==
    /\ variant = "cli"
    /\ MainRuns
    /\ \/ pc = "raised" /\ UNCHANGED <<result, trace>>
       \/ /\ pc \in {"fetch_manifest", "download", "copy", "save_manifest",
                     "inventory"}
          /\ result' = "failure"
          /\ trace' = Append(trace, Event("interrupt", 0, TRUE))
    /\ pc' = "exited"
    /\ exit_code' = <<1>>
    /\ models_list' = {}
    /\ UNCHANGED <<auxvars, settingvars, permvars, fsvars, unnecessary_files,
                   cleanup_running, runvars, cleanvars, pre_files, pre_dirs,
                   manifest_json, last_response>>

\* ------------------------------------------------- top-level orchestrator
\* The caller of download_model in the class generations: on a raised error
\* it runs the clean-up of the downloader and then ends the command.
RollbackOnFailure ==
    /\ pc = "raised"
    /\ MainRuns
    /\ variant \in ClassVariants
    /\ pc' = "rollback"
    /\ cpc' = [cpc EXCEPT !["main"] = "check"]
    /\ cself' = [cself EXCEPT !["main"] = Main]
    /\ models_list' = {}
    /\ UNCHANGED <<auxvars, settingvars, exit_code, permvars, fsvars, unnecessary_files, cleanup_running,
                   runvars, todo, cdirs, reported, snapshot, disk_at,
                   delete_failures, result, trace, pre_files, pre_dirs,
                   manifest_json, last_response>>

\* The command ends once download_model has returned or the clean-up after
\* a logged error is over: the invocation counts as successful, status 0.
Exit ==
    /\ MainRuns
    /\ \/ pc = "returned"
       \/ pc = "rollback" /\ cpc["main"] \in {"done", "skipped"}
    /\ pc' = "exited"
    /\ exit_code' = <<0>>
    /\ models_list' = {}
    /\ UNCHANGED <<auxvars, settingvars, permvars, fsvars, unnecessary_files,
                   cleanup_running, runvars, cleanvars, result, trace,
                   pre_files, pre_dirs,
                   manifest_json, last_response>>

\* An operator interrupt: the handler runs in the main thread on top of the
\* suspended main path, calls the clean-up of a downloader and exits.
Interrupt ==
    /\ MainRuns
    /\ variant \in ClassVariants
    /\ pc \in {"fetch_manifest", "download", "copy", "save_manifest",
               "tolerate", "inventory", "raised", "rollback"}
    /\ \E inst \in Instances : cself' = [cself EXCEPT !["handler"] = inst]
    /\ cpc' = [cpc EXCEPT !["handler"] = "check"]
    /\ result' = "failure"
    /\ trace' = Append(trace, Event("interrupt", 0, TRUE))
    /\ models_list' = {}
    /\ UNCHANGED <<auxvars, settingvars, exit_code, permvars, fsvars, unnecessary_files, cleanup_running, pc,
                   runvars, todo, cdirs, reported, snapshot, disk_at,
                   delete_failures, pre_files, pre_dirs,
                   manifest_json, last_response>>

\* An operator interrupt that arrives inside _copy_blob_to_destination, after
\* shutil.move and before the two updates of the set: nothing keeps the
\* handler out of that window, and the handler never returns to the copy.
InterruptMidCopy ==
    /\ pc = "copy"
    /\ MainRuns
    /\ variant \in ClassVariants
    /\ LET e == files_to_be_copied[idx]
           r == copy_blob_to_destination(Main, e.source, e.named_digest,
                                         e.computed_digest, "ok")
       IN  /\ r.status = "ok"
           /\ files' = r.files
           /\ content' = r.content
    /\ pc' = "in_copy"
    /\ \E inst \in Instances : cself' = [cself EXCEPT !["handler"] = inst]
    /\ cpc' = [cpc EXCEPT !["handler"] = "check"]
    /\ result' = "failure"
    /\ trace' = Append(trace, Event("interrupt", 0, TRUE))
    /\ UNCHANGED <<auxvars, settingvars, exit_code, permvars, dirs, mfile_data, unnecessary_files,
                   cleanup_running, runvars, todo, cdirs, reported, snapshot,
                   disk_at, delete_failures, histvars>>

\* The handler ends the process; its exit status is not fixed.
HandlerExit ==
    /\ cpc["handler"] \in {"done", "skipped"}
    /\ pc # "exited"
    /\ pc' = "exited"
    /\ \E status \in {0, 1} : exit_code' = <<status>>
    /\ UNCHANGED <<auxvars, settingvars, permvars, fsvars, unnecessary_files,
                   cleanup_running, runvars, cleanvars, result, trace,
                   histvars>>

\* ---------------------------------------------------------- specification
Cleanup ==
    \E c \in Contexts :
        \/ CleanupCheck(c)
        \/ CleanupBegin(c)
        \/ CleanupFile(c)
        \/ CleanupDir(c)
        \/ CleanupEnd(c)

Next ==
    \/ FetchManifest
    \/ DownloadBlob
    \/ CopyBlob
    \/ LegacyCopyBlob
    \/ SaveManifest
    \/ TolerateErrors
    \/ InventoryCheck
    \/ CliDownloadBlob
    \/ CliCopyBlob
    \/ CliSaveManifest
    \/ CliInventoryCheck
    \/ CliExit
    \/ RollbackOnFailure
    \/ Exit
    \/ Interrupt
    \/ InterruptMidCopy
    \/ HandlerExit
    \/ Cleanup

Spec == Init /\ [][Next]_vars

TypeOK ==
    /\ pc \in {"fetch_manifest", "download", "copy", "save_manifest",
               "tolerate", "inventory", "returned", "raised", "rollback",
               "in_copy", "exited"}
    /\ files \subseteq BlobFiles \cup {manifest_file, blobs_dir}
    /\ result \in {"none", "success", "failure"}
    /\ chowned \subseteq BlobFiles \cup Prefixes(manifest_file) \cup {blobs_dir}
    /\ mode_0640 \subseteq BlobFiles
    /\ last_response \in FetchOutcomes \cup {"none"}
    /\ manifest_json \in ManifestDocuments \cup {NoDocument}
    /\ exit_code \in {<< >>, <<0>>, <<1>>}
    /\ (exit_code # << >>) <=> (pc = "exited")

\* ================================================================= claims
Last(s) == s[Len(s)]

\* The hex part of a digest string, parsed at its colon.
HexOf(digest) ==
    SubSeq(digest, (CHOOSE i \in DOMAIN digest : digest[i] = ":") + 1,
           Len(digest))

Ops(op) == {j \in DOMAIN trace : trace[j].op = op}

Failed(op) == {j \in Ops(op) : ~trace[j].ok}

\* The step just taken is an iteration of the copy loop.
CopyStepTaken ==
    /\ pc = "copy"
    /\ trace' # trace
    /\ Last(trace').op = "commit"

\* C1: for every manifest and every k, when commit_blob fails for the k-th
\* blob of the run, commit_manifest is not executed in that run and no
\* manifest file is written by it.
C1_NoManifestAfterFailedCommit ==
    Failed("commit") # {} => Ops("manifest") = {}

\* C2: in every reachable state, a manifest file that this program wrote and
\* that is present under manifests/ references only digests whose blob file
\* is present under blobs/.
C2_ManifestResolves ==
    (manifest_file \in files /\ Ops("manifest") # {})
        => \A k \in DOMAIN mfile_data : BlobPath(mfile_data[k]) \in files

\* C3: commit_blob called with a computed digest that differs from the
\* descriptor's digest returns failure, moves, copies and deletes nothing,
\* and leaves the temp path, still on disk, in the pending-work set.
C3_MismatchLeavesTemp ==
    [][ LET e == files_to_be_copied[idx] IN
        (/\ variant \in ClassVariants
         /\ CopyStepTaken
         /\ e.computed_digest # HexOf(e.named_digest))
            => /\ ~Last(trace').ok
               /\ files' = files
               /\ dirs' = dirs
               /\ content' = content
               /\ e.source \in files'
               /\ e.source \in unnecessary_files'[SetOf(Main)] ]_vars

C3_Witness ==
    /\ variant = "downloader"
    /\ pc = "raised"
    /\ trace # << >>
    /\ Last(trace).op = "commit"
    /\ files_to_be_copied[idx].computed_digest
          # HexOf(files_to_be_copied[idx].named_digest)
    /\ files_to_be_copied[idx].source \in files
    /\ files_to_be_copied[idx].source \in Tracked(Main)

\* C4: within one run no commit_blob starts before fetch_blob has succeeded
\* for the config blob and for every layer; when a fetch fails the run has
\* moved nothing into the blob store and written nothing under manifests/.
C4_AllFetchedBeforeCommit ==
    /\ \A j \in Ops("commit") :
          \A k \in 1..Len(manifest) :
              \E i \in 1..(j - 1) : trace[i] = Event("fetch", k, TRUE)
    /\ Failed("fetch") # {} => (Ops("commit") = {} /\ Ops("manifest") = {})

\* C5: after a fatal condition (manifest error, failed fetch, failed commit)
\* no later pipeline step of download_model runs.
C5_FatalStopsPipeline ==
    \A i \in Failed("fetch_manifest") \cup Failed("fetch") \cup Failed("commit") :
        \A j \in DOMAIN trace :
            j > i => trace[j].op \notin {"fetch", "commit", "manifest", "inventory"}

\* C6 (as stated): after a successful commit_blob neither the temp path nor
\* the final blob path is in the pending-work set; no reachable state has
\* the path of a successfully committed blob in the set.
C6_CommittedBlobUntracked ==
    \A j \in Ops("commit") :
        trace[j].ok =>
            /\ TempPath(trace[j].i) \notin Tracked(Main)
            /\ BlobPath(manifest[trace[j].i]) \notin Tracked(Main)

\* C6 (amended): after a successful commit_blob of the downloader classes
\* the temp path is no longer in the pending-work set and the final blob
\* path is in it.
C6_CommittedBlobTracked ==
    [][ LET e == files_to_be_copied[idx] IN
        (/\ variant \in ClassVariants
         /\ CopyStepTaken
         /\ Last(trace').ok)
            => /\ e.source \notin unnecessary_files'[SetOf(Main)]
               /\ BlobPath(e.named_digest) \in unnecessary_files'[SetOf(Main)]
      ]_vars

C6_Witness ==
    /\ variant = "downloader"
    /\ pc \in {"copy", "save_manifest"}
    /\ trace # << >>
    /\ Last(trace) = Event("commit", Len(manifest), TRUE)
    /\ TempPath(Len(manifest)) \notin Tracked(Main)
    /\ BlobPath(manifest[Len(manifest)]) \in Tracked(Main)

\* C7: rollback never removes a file or directory that existed before
\* download_model started, also when the run wrote to the same path.
C7_PreexistingKept ==
    /\ pre_files \subseteq files
    /\ pre_dirs \subseteq dirs

\* C8: when a rollback has run to its end, every path that was tracked when
\* it started is gone from the disk or had its removal failure logged, and
\* every path outside that set is as it was when the rollback started.
C8_RollbackComplete ==
    \A c \in Contexts :
        cpc[c] = "done" =>
            /\ \A p \in snapshot[c] :
                  p \notin (files \cup dirs) \/ p \in reported
            /\ files \ snapshot[c] = disk_at[c].files \ snapshot[c]
            /\ dirs \ snapshot[c] = disk_at[c].dirs \ snapshot[c]
            /\ \A p \in BlobFiles \ snapshot[c] :
                  content[p] = disk_at[c].content[p]
            /\ manifest_file \notin snapshot[c]
                  => mfile_data = disk_at[c].mfile_data

C8_Witness ==
    \E c \in Contexts :
        /\ cpc[c] = "done"
        /\ \E p \in snapshot[c] : p \in reported /\ p \in files
        /\ \E q \in snapshot[c] : q \in disk_at[c].files /\ q \notin files
        /\ \E r \in files : r \notin snapshot[c]

\* C9: at most one execution of rollback operates on a shared pending-work
\* set at any time.
C9_OneRollbackAtATime ==
    variant = "downloader" => ~(cpc["main"] = "run" /\ cpc["handler"] = "run")

\* C10: whenever download_model ends in failure, rollback is executed
\* before the process exits and clear is not executed for that run.
C10_RollbackBeforeExit ==
    (pc = "exited" /\ result = "failure")
        => (Ops("rollback") # {} /\ Ops("clear") = {})

\* C11: the pending-work sets of two download operations, also when they run
\* through different downloader instances of one process, share no entries:
\* the instance that runs no download here has an empty set in every state
\* (so a download_model call through it starts with an empty set), and a
\* rollback called through it sees no path tracked by the other's download.
C11_SetsNotShared ==
    /\ Tracked("hf") = {}
    /\ \A c \in Contexts : cself[c] # Main => snapshot[c] = {}

\* C12: the set accesses of the main path and of an interrupt-driven rollback
\* exclude each other: no rollback takes its list of the set, or changes the
\* set, while commit_blob is between its move and its update of the set.
C12_SetAccessExclusive ==
    pc = "in_copy" => cpc["handler"] \notin {"run", "done"}

\* The name condition and the recency condition of the inventory lookup, as
\* an interval around the manifest save.
Matches(e) ==
    /\ e.model = ModelName
    /\ e.delta > -one_minute
    /\ e.delta < one_minute

\* The paths this run has committed: the blob of every successful commit and
\* the manifest file once it is saved.
Committed ==
    {BlobPath(manifest[trace[j].i]) : j \in Ops("commit") \ Failed("commit")}
        \cup {manifest_file : j \in Ops("manifest") \ Failed("manifest")}

\* download_model has just ended on the outcome of its inventory lookup.
JustChecked ==
    /\ pc \in {"returned", "raised"}
    /\ trace # << >>
    /\ Last(trace).op \in {"inventory", "clear"}

\* C13: when no inventory entry satisfies the name and the recency condition
\* download_model ends in failure, also when every blob and the manifest
\* were committed; it never reports success without a matching entry.
C13_NotFoundFails ==
    /\ Failed("inventory") # {} => (result = "failure" /\ pc # "returned")
    /\ result = "success" => \E j \in Ops("inventory") : trace[j].ok
    /\ (JustChecked /\ result = "success") => \E e \in models_list : Matches(e)

C13_Witness ==
    /\ pc = "raised"
    /\ result = "failure"
    /\ Last(trace) = Event("inventory", 0, FALSE)
    /\ Failed("commit") = {}
    /\ Committed \subseteq files
    /\ models_list # {}
    /\ \A e \in models_list : ~Matches(e)

\* C14 (as stated): when the inventory lookup ends in NotFound, the blobs and
\* the manifest file that the run committed are still on disk, also after
\* the rollback.
C14_CommittedKept ==
    Failed("inventory") # {} => Committed \subseteq files

\* The run keeps no record of what it committed: cli.py never has one, the
\* downloader classes drop it when remove_downloaded_on_error is off.
KeepsCommitted ==
    \/ variant = "cli"
    \/ variant = "downloader" /\ ~remove_downloaded_on_error

\* C14 (amended): after a NotFound the committed blobs and manifest stay on
\* disk when remove_downloaded_on_error is off (the set was cleared before
\* the lookup); otherwise they are still tracked, and a rollback of the
\* run's set that reaches its end has removed each or logged its failure.
C14_CommittedKeptIfTolerated ==
    Failed("inventory") # {} =>
        /\ KeepsCommitted => Committed \subseteq files
        /\ (/\ ~KeepsCommitted
            /\ \E c \in Contexts :
                  cpc[c] = "done" /\ SetOf(cself[c]) = SetOf(Main))
              => \A p \in Committed : p \notin files \/ p \in reported

C14_Witness ==
    /\ variant = "downloader"
    /\ remove_downloaded_on_error
    /\ Failed("inventory") # {}
    /\ cpc["main"] = "done"
    /\ Committed \cap files = {}
    /\ Len(manifest) > 1

\* The outcome of the inventory lookup that has just ended download_model.
LookupOk == \E j \in Ops("inventory") : trace[j].ok

\* C15 (as stated): the lookup matches an entry only if its name is the
\* model's and its modified_at lies within one minute after the manifest
\* save; an entry of that name modified before the save is never matched.
C15_MatchOnlyAfter ==
    (JustChecked /\ LookupOk) =>
        \E e \in models_list :
            e.model = ModelName /\ e.delta >= 0 /\ e.delta < one_minute

\* C15 (amended): the lookup matches an entry exactly if its name is the
\* model's and its modified_at is less than one minute away from the
\* manifest save, before or after it; an entry of that name modified a
\* minute or more before the save is not matched.
C15_MatchWithinMinuteEitherSide ==
    JustChecked =>
        (LookupOk <=>
            \E e \in models_list :
                e.model = ModelName /\ e.delta > -60 /\ e.delta < 60)

C15_Witness ==
    /\ JustChecked
    /\ LookupOk
    /\ result = "success"
    /\ \E e \in models_list : e.model = ModelName /\ e.delta < 0

\* C16: with T the time of the manifest save, a listing whose only entry has
\* the model's name is accepted when its modified_at is T+30s or T+59s and
\* rejected, download_model ending in failure, when it is T+61s or T+90s.
C16_WindowBoundary ==
    JustChecked =>
        \A e \in models_list :
            (models_list = {e} /\ e.model = ModelName) =>
                /\ e.delta \in {30, 59} => (LookupOk /\ result = "success")
                /\ e.delta \in {61, 90} => (~LookupOk /\ result = "failure")

C16_Witness ==
    /\ JustChecked
    /\ models_list = {[model |-> ModelName, delta |-> 61]}
    /\ Last(trace) = Event("inventory", 0, FALSE)
    /\ result = "failure"

\* The events of the run that reported a failure.
Failures == {j \in DOMAIN trace : ~trace[j].ok}

\* C17: when the manifest is fetched and parsed, every blob hashes to its
\* declared digest, the blobs directory exists and the inventory lists the
\* model inside the window, download_model succeeds (without ownership
\* changes no step fails for any other reason), and on return the blob of
\* the config and of every layer exists with the declared content, the
\* manifest file holds the manifest as fetched, and the set is empty.
C17_SuccessfulDownload ==
    /\ (pc = "returned" /\ Failed("commit") = {}) =>
          /\ result = "success"
          /\ \A k \in DOMAIN manifest :
                /\ BlobPath(manifest[k]) \in files
                /\ <<content[BlobPath(manifest[k])]>> = HexOf(manifest[k])
          /\ manifest_file \in files
          /\ mfile_data = manifest
          /\ Tracked(Main) = {}
    /\ ~user_group =>
          \A j \in Failures :
              \/ trace[j].op \in {"fetch_manifest", "fetch"}
              \/ /\ trace[j].op = "commit"
                 /\ \/ blobs_dir \notin dirs
                    \/ files_to_be_copied[trace[j].i].computed_digest
                          # HexOf(manifest[trace[j].i])
              \/ /\ trace[j].op = "inventory"
                 /\ JustChecked => ~\E e \in models_list : Matches(e)

C17_Witness ==
    /\ variant = "downloader"
    /\ pc = "returned"
    /\ result = "success"
    /\ Len(manifest) > 1
    /\ manifest[1] # manifest[2]
    /\ \A k \in DOMAIN manifest : BlobPath(manifest[k]) \in files
    /\ mfile_data = manifest
    /\ Tracked(Main) = {}
    /\ pre_files = {}

\* The events of one kind, in the order in which they happened.
Nth(op, j) == Cardinality({m \in Ops(op) : m <= j})

C19_StoreNotInitialized ==
    [][ (CopyStepTaken /\ blobs_dir \notin dirs)
            => /\ ~Last(trace').ok
               /\ blobs_dir \notin dirs'
               /\ files' = files
               /\ dirs' = dirs
               /\ content' = content
               /\ mfile_data' = mfile_data ]_vars

C19_Witness ==
    /\ pc = "raised"
    /\ trace # << >>
    /\ Last(trace) = Event("commit", 1, FALSE)
    /\ blobs_dir \notin dirs
    /\ blobs_dir \in files
    /\ files_to_be_copied[1].computed_digest = HexOf(manifest[1])
    /\ files_to_be_copied[1].source \in files

\* C20: rollback deletes tracked files directly and defers a tracked
\* directory until the tracked files have been handled; it removes the
\* directory only if nothing is in it, and otherwise leaves it and its
\* content in place, logs the failure and goes on to its normal end.
C20_NonEmptyDirKept ==
    [][ \A c \in Contexts :
          /\ \A f \in todo[c] \ todo'[c] :
                /\ dirs' = dirs
                /\ f \in dirs => (f \in cdirs'[c] /\ files' = files)
                /\ f \in files => (f \notin files' \/ f \in reported')
          /\ \A d \in cdirs[c] \ cdirs'[c] :
                LET nonempty ==
                        \E q \in files \cup dirs :
                            Len(q) = Len(d) + 1 /\ SubSeq(q, 1, Len(d)) = d
                IN  /\ todo[c] = {}
                    /\ files' = files
                    /\ mfile_data' = mfile_data
                    /\ dirs \ dirs' \subseteq {d}
                    /\ nonempty => (dirs' = dirs /\ d \in reported')
                    /\ d \in dirs' => d \in reported'
                    /\ cpc'[c] = "run" ]_vars

C20_Witness ==
    \E c \in Contexts :
        /\ cpc[c] = "done"
        /\ manifests_dir \in snapshot[c]
        /\ manifests_dir \in dirs
        /\ manifest_file \in files
        /\ manifests_dir \in reported
        /\ \E f \in snapshot[c] : f \in disk_at[c].files /\ f \notin files

\* C21: a rollback called right after a finished rollback of the same set,
\* with nothing tracked in between, ends normally and, unless a removal that
\* failed in the first call succeeds in the second, leaves the disk and the
\* set as the first call left them.
C21_RollbackIdempotent ==
    (/\ cpc["main"] = "done"
     /\ cpc["handler"] = "done"
     /\ SetOf(cself["handler"]) = SetOf(Main)
     /\ snapshot["handler"] \cap disk_at["handler"].files \subseteq files)
        => /\ Disk = disk_at["handler"]
           /\ Tracked(Main) = snapshot["handler"]

C21_Witness ==
    /\ cpc["main"] = "done"
    /\ cpc["handler"] = "done"
    /\ SetOf(cself["handler"]) = SetOf(Main)
    /\ snapshot["main"] \cap disk_at["main"].dirs # {}
    /\ snapshot["main"] \cap disk_at["main"].files # {}
    /\ Disk # disk_at["main"]
    /\ Disk = disk_at["handler"]
    /\ Tracked(Main) = snapshot["handler"]

\* C22: every temp file that fetch_blob created is in the pending-work set
\* for as long as it is on disk, also after a fetch that failed on a non-2xx
\* status or in mid-stream.
C22_TempTracked ==
    \A i \in 1..(MaxLayers + 1) :
        TempPath(i) \in files => TempPath(i) \in Tracked(Main)

\* C23: every directory _save_manifest_to_destination creates is added to
\* the pending-work set by that call, and no directory that existed before
\* the call is added.
C23_CreatedDirsTracked ==
    [][(/\ variant \in ClassVariants
        /\ pc = "save_manifest"
        /\ pc' # "save_manifest")
           => dirs' \ dirs = (Tracked(Main)' \ Tracked(Main)) \cap dirs']_vars

\* C24: with an ownership pair configured, a successful
\* _save_manifest_to_destination applies the ownership to the manifest file
\* and to exactly the directory levels it created in this call.
C24_ChownOnlyCreated ==
    [][(/\ variant \in ClassVariants
        /\ user_group
        /\ pc = "save_manifest"
        /\ pc' \notin {"save_manifest", "raised"})
           => chowned' \ chowned
                 = ({manifest_file} \cup (dirs' \ dirs)) \ chowned]_vars

\* C25: after every successful _copy_blob_to_destination the final blob
\* file has mode 0o640, with or without an ownership pair.
C25_BlobMode ==
    \A j \in Ops("commit") :
        trace[j].ok => BlobPath(manifest[trace[j].i]) \in mode_0640

\* C26: the digest check of _copy_blob_to_destination passes only for a
\* descriptor digest of the form "sha256:<hex>", sha256 being what
\* _download_model_blob hashes with, whose hex part is the computed one.
C26_DigestCheck ==
    \A j \in Ops("commit") :
        LET e == files_to_be_copied[trace[j].i] IN
        trace[j].ok
            => /\ SubSeq(e.named_digest, 1, Len(sha256_prefix)) = sha256_prefix
               /\ HexOf(e.named_digest) = e.computed_digest

\* C27: _download_model_blob succeeds whenever the status is 2xx and the
\* body is read to its end, with or without a Content-Length header.
C27_SizeNeverDecides ==
    (/\ trace # << >>
     /\ Last(trace).op = "fetch"
     /\ last_response \in {"ok", "corrupt", "no_content_length"})
        => Last(trace).ok

C30_HandledErrorExitsZero ==
    (/\ pc = "exited"
     /\ Len(trace) = 1
     /\ trace[1].op = "fetch_manifest"
     /\ manifest_json = NoDocument)
        => /\ result = "failure"
           /\ exit_code = <<0>>

\* ------------------------------------------------------- list_models_tags
\* Calls of list_models_tags made in one process.
MaxCalls == 2

\* The models of the library page, in page order.
CatalogModels == <<"m1", "m2", "m3">>

\* What update_models_list can read off the library page.
Catalogs == {SubSeq(CatalogModels, 1, n) : n \in 0..Len(CatalogModels)}

\* The tags a tag page can list for its model.
TagSets == {{}, {"latest"}, {"latest", "7b"}}

PageOutcomes == {"ok", "http_error", "parse_error"}

\* "self.models_tags[m] = list(model_unique_tags)"
Put(dict, key, value) ==
    [k \in DOMAIN dict \cup {key} |-> IF k = key THEN value ELSE dict[k]]

\* "list(self.models_tags.keys())"
RECURSIVE KeysFrom(_, _)
KeysFrom(dict, k) ==
    IF k > Len(CatalogModels) THEN << >>
    ELSE (IF CatalogModels[k] \in DOMAIN dict THEN <<CatalogModels[k]>>
          ELSE << >>) \o KeysFrom(dict, k + 1)

Keys(dict) == KeysFrom(dict, 1)

\* list_models_tags(model=None, update): the cache is loaded, the list of
\* models is refreshed when update is set, and a full update of the tags
\* starts when it is asked for or when no tags are known.
ListModelsTags ==
    /\ lpc \in {"idle", "returned", "raised"}
    /\ calls < MaxCalls
    /\ calls' = calls + 1
    /\ failed_pages' = {}
    /\ lidx' = 1
    /\ \E update \in BOOLEAN, outcome \in {"ok", "http_error"},
          catalog \in Catalogs :
        LET cached == models_tags_cache # << >>
            loaded_tags == IF cached THEN models_tags_cache[1]
                           ELSE models_tags
            loaded_models == IF cached THEN Keys(models_tags_cache[1])
                             ELSE library_models
            raised == update /\ outcome # "ok"
            listed == IF update THEN catalog ELSE loaded_models
            full == update \/ DOMAIN loaded_tags = {}
        IN  /\ models_tags' = loaded_tags
            /\ library_models' = IF raised THEN loaded_models ELSE listed
            /\ lpc' = IF raised THEN "raised"
                      ELSE IF full /\ listed # << >> THEN "loop"
                      ELSE "returned"
            /\ models_tags_cache' =
                  IF ~raised /\ full /\ listed = << >>
                  THEN <<loaded_tags>> ELSE models_tags_cache
    /\ UNCHANGED <<downloadvars, refvars, appvars, libvars>>

\* One iteration of "for m in self.library_models": the tag page of m is
\* requested and parsed; after the last one the cache file is written.
TagsPage ==
    /\ lpc = "loop"
    /\ \E outcome \in PageOutcomes, tags \in TagSets :
        LET m == library_models[lidx]
            updated == Put(models_tags, m, tags)
            last == lidx = Len(library_models)
        IN  IF outcome # "ok"
            THEN /\ lpc' = "raised"
                 /\ failed_pages' = failed_pages \cup {m}
                 /\ UNCHANGED <<models_tags, models_tags_cache, lidx>>
            ELSE /\ models_tags' = updated
                 /\ lidx' = IF last THEN 1 ELSE lidx + 1
                 /\ lpc' = IF last THEN "returned" ELSE "loop"
                 /\ models_tags_cache' = IF last THEN <<updated>>
                                         ELSE models_tags_cache
                 /\ UNCHANGED failed_pages
    /\ UNCHANGED <<downloadvars, refvars, appvars, libvars, library_models,
                   calls>>

InitTags ==
    /\ DownloadIdle
    /\ TagsIdle
    /\ RefsIdle
    /\ SettingsIdle
    /\ LibraryIdle

NextTags ==
    \/ ListModelsTags
    \/ TagsPage

SpecTags == InitTags /\ [][NextTags]_vars

\* C31: in a full tag listing a tag page that fails to load or parse is
\* skipped: the failure is not raised to the caller, and the listing ends
\* with the tags of the remaining models in the cache.
C31_FailedTagPageSkipped ==
    (failed_pages # {} /\ lpc # "loop")
        => /\ lpc = "returned"
           /\ models_tags_cache # << >>
           /\ \A k \in 1..Len(library_models) :
                 library_models[k] \notin failed_pages
                     => library_models[k] \in DOMAIN models_tags_cache[1]

\* ------------------------------------------- model identifiers and URLs
\* Longest identifier given, in characters.
MaxIdLen == 5

\* The characters of an identifier: two letters and the two separators.
Chars == {"a", "b", "/", ":"}

Identifiers == UNION {[1..n -> Chars] : n \in 0..MaxIdLen}

\* registry_base_url as shipped, and as edited to end without the slash.
RegistryBaseUrls ==
    { default_registry_base_url,
      SubSeq(default_registry_base_url, 1, Len(default_registry_base_url) - 1) }

\* "HF_BASE_URL = f'https://{HF_BASE_HOST}/v2/'"
HF_BASE_URL == <<"https:", "/", "/", "hf.co", "/", "v2", "/">>

latest == <<"latest">>

Range(str) == {str[i] : i \in DOMAIN str}

\* str.split(sep)
RECURSIVE Split(_, _)
Split(str, sep) ==
    IF sep \notin Range(str) THEN <<str>>
    ELSE LET k == CHOOSE i \in DOMAIN str :
                    str[i] = sep /\ \A j \in 1..(i - 1) : str[j] # sep
         IN  <<SubSeq(str, 1, k - 1)>> \o Split(SubSeq(str, k + 1, Len(str)), sep)

\* str.replace(old, new), new being a string
RECURSIVE ReplaceWith(_, _, _)
ReplaceWith(str, old, new) ==
    IF str = << >> THEN << >>
    ELSE (IF str[1] = old THEN new ELSE <<str[1]>>)
             \o ReplaceWith(SubSeq(str, 2, Len(str)), old, new)

\* The exception a parse ends with, by the downloader that raised it.
ParseError(downloader) ==
    [kind |-> downloader, name |-> << >>, tag |-> << >>]

\* OllamaModelDownloader.download_model: "model, tag = (model_identifier
\* .split(':') if ':' in model_identifier else (model_identifier,
\* 'latest'))"; unpacking anything but two parts raises ValueError.
library_parse(identifier) ==
    IF ":" \in Range(identifier)
    THEN LET parts == Split(identifier, ":") IN
         IF Len(parts) = 2
         THEN [kind |-> "library", name |-> <<parts[1]>>, tag |-> parts[2]]
         ELSE ParseError("library_error")
    ELSE [kind |-> "library", name |-> <<identifier>>, tag |-> latest]

\* HuggingFaceModelDownloader.download_model: "(user, model_repo), quant =
\* (model_identifier.split(':')[0].split('/'), model_identifier
\* .split(':')[1])"; IndexError without a colon, ValueError unless the
\* part before the first colon has exactly one slash.
hub_parse(identifier) ==
    LET parts == Split(identifier, ":")
        user_repo == Split(parts[1], "/")
    IN  IF Len(parts) < 2 \/ Len(user_repo) # 2
        THEN ParseError("hub_error")
        ELSE [kind |-> "hub", name |-> user_repo, tag |-> parts[2]]

\* httpx "URL(base).join(relative)": the reference is resolved against the
\* base as urljoin does.
url_join(base, relative) ==
    LET slashes == {i \in DOMAIN base : base[i] = "/"}
        last_slash == CHOOSE i \in slashes : \A j \in slashes : j <= i
        origin == SubSeq(base, 1, 4)
    IN  IF relative = << >> THEN base
        ELSE IF Len(relative) > 1 /\ relative[1] = "/" /\ relative[2] = "/"
        THEN <<base[1]>> \o relative
        ELSE IF relative[1] = "/" THEN origin \o relative
        ELSE SubSeq(base, 1, last_slash) \o relative

\* OllamaModelDownloader._get_manifest_url
get_manifest_url(base, model, tag) ==
    url_join(base, model \o <<"/", "manifests", "/">> \o tag)

\* OllamaModelDownloader._get_blob_url
get_blob_url(base, model, digest) ==
    url_join(base, model \o <<"/", "blobs", "/">> \o Replace(digest, ":", "-"))

\* HuggingFaceModelDownloader._get_manifest_url
hf_get_manifest_url(user_repo_quant) ==
    HF_BASE_URL \o ReplaceWith(user_repo_quant, ":", <<"/", "manifests", "/">>)

\* HuggingFaceModelDownloader._get_blob_url
hf_get_blob_url(user_repo_quant, digest) ==
    HF_BASE_URL \o Split(user_repo_quant, ":")[1] \o <<"/", "blobs", "/">>
        \o digest

\* download_model of the Ollama library downloader takes the identifier apart.
ParseLibraryRef ==
    /\ rpc = "given"
    /\ ref' = library_parse(model_identifier)
    /\ rpc' = "parsed"
    /\ UNCHANGED <<downloadvars, tagvars, appvars, libvars, model_identifier, registry_base_url,
                   urls>>

\* download_model of the Hugging Face downloader takes the identifier apart.
ParseHubRef ==
    /\ rpc = "given"
    /\ ref' = hub_parse(model_identifier)
    /\ rpc' = "parsed"
    /\ UNCHANGED <<downloadvars, tagvars, appvars, libvars, model_identifier, registry_base_url,
                   urls>>

\* The request URLs of the Ollama library downloader, for one descriptor.
LibraryUrls ==
    /\ rpc = "parsed"
    /\ ref.kind = "library"
    /\ \E digest \in NamedDigests :
        urls' = [ manifest |-> get_manifest_url(registry_base_url,
                                               ref.name[1], ref.tag),
                  blob |-> get_blob_url(registry_base_url, ref.name[1],
                                        digest) ]
    /\ rpc' = "built"
    /\ UNCHANGED <<downloadvars, tagvars, appvars, libvars, model_identifier, registry_base_url,
                   ref>>

\* The request URLs of the Hugging Face downloader, for one descriptor.
HubUrls ==
    /\ rpc = "parsed"
    /\ ref.kind = "hub"
    /\ \E digest \in NamedDigests :
        urls' = [ manifest |-> hf_get_manifest_url(model_identifier),
                  blob |-> hf_get_blob_url(model_identifier, digest) ]
    /\ rpc' = "built"
    /\ UNCHANGED <<downloadvars, tagvars, appvars, libvars, model_identifier, registry_base_url,
                   ref>>

InitRefs ==
    /\ DownloadIdle
    /\ TagsIdle
    /\ SettingsIdle
    /\ LibraryIdle
    /\ model_identifier \in Identifiers
    /\ registry_base_url \in RegistryBaseUrls
    /\ rpc = "given"
    /\ ref = NoRef
    /\ urls = NoUrls

NextRefs ==
    \/ ParseLibraryRef
    \/ ParseHubRef
    \/ LibraryUrls
    \/ HubUrls

SpecRefs == InitRefs /\ [][NextRefs]_vars

\* A non-empty run of letters.
IsWord(str) == str # << >> /\ Range(str) \subseteq {"a", "b"}

\* C32: 'name:tag' parses to LibraryRef(name, tag), 'name' to
\* LibraryRef(name, 'latest'), 'owner/repo:quant' to HubRef(owner, repo,
\* quant); a LibraryRef that parsing returns contains no '/', a HubRef has
\* exactly one '/' before the ':'.
C32_ParsedRefs ==
    LET id == model_identifier
        colon == {i \in DOMAIN id : id[i] = ":"}
        slash == {i \in DOMAIN id : id[i] = "/"}
    IN  /\ (ref.kind \in {"library", "library_error"} /\ IsWord(id))
              => ref = [kind |-> "library", name |-> <<id>>, tag |-> latest]
        /\ \A k \in colon :
              LET name == SubSeq(id, 1, k - 1)
                  tag == SubSeq(id, k + 1, Len(id))
              IN  (ref.kind \in {"library", "library_error"} /\ IsWord(name)
                        /\ IsWord(tag))
                      => ref = [kind |-> "library", name |-> <<name>>,
                                tag |-> tag]
        /\ \A j \in slash, k \in colon :
              LET owner == SubSeq(id, 1, j - 1)
                  repo == SubSeq(id, j + 1, k - 1)
                  quant == SubSeq(id, k + 1, Len(id))
              IN  (ref.kind \in {"hub", "hub_error"}
                        /\ IsWord(owner) /\ IsWord(repo) /\ IsWord(quant))
                      => ref = [kind |-> "hub", name |-> <<owner, repo>>,
                                tag |-> quant]
        /\ ref.kind = "library"
              => "/" \notin Range(ref.name[1]) \cup Range(ref.tag)
        /\ ref.kind = "hub"
              => /\ "/" \notin Range(ref.name[1]) \cup Range(ref.name[2])
                 /\ Split(id, ":")[1] = ref.name[1] \o <<"/">> \o ref.name[2]

\* C33: for both registries the blob URL is the registry base joined with
\* the namespace, 'blobs/' and the digest with ':' replaced by '-', and the
\* manifest URL is the base joined with the namespace, 'manifests/' and the
\* tag or quant.
C33_RequestUrls ==
    rpc = "built"
        => LET base == IF ref.kind = "library" THEN registry_base_url
                       ELSE HF_BASE_URL
               namespace == IF ref.kind = "library" THEN ref.name[1]
                            ELSE ref.name[1] \o <<"/">> \o ref.name[2]
               joined(rest) ==
                   base \o (IF Last(base) = "/" THEN << >> ELSE <<"/">>)
                        \o namespace \o rest
           IN  /\ urls.manifest = joined(<<"/", "manifests", "/">> \o ref.tag)
               /\ \E digest \in NamedDigests :
                     urls.blob = joined(<<"/", "blobs", "/">>
                                           \o Replace(digest, ":", "-"))

\* ---------------------------------------------------------------------------
\* Application settings: data/data_models.py AppSettings and its callers.
\* heap holds the AppSettings instances of the process (their
\* ollama_library.verify_ssl), held the references the calls returned, in
\* call order, and cached_settings the instance the class keeps, 0 for none.
\* ---------------------------------------------------------------------------

MaxRefs == 4

\* A freshly validated AppSettings: the Field defaults, the nested
\* OllamaLibrary default copied for the instance.
DefaultAppSettings == [verify_ssl |-> TRUE]

\* AppSettings(): BaseModel construction; the class defines no __new__ and
\* keeps no instance, every call allocates.
ConstructAppSettings ==
    /\ Len(held) < MaxRefs
    /\ heap' = Append(heap, DefaultAppSettings)
    /\ held' = Append(held, Len(heap) + 1)
    /\ UNCHANGED <<downloadvars, tagvars, refvars, libvars, cached_settings>>

\* AppSettings.load_or_create_default(): the instance the class keeps,
\* created on the first call.
LoadOrCreateDefault ==
    /\ Len(held) < MaxRefs
    /\ IF cached_settings = 0
       THEN /\ heap' = Append(heap, DefaultAppSettings)
            /\ cached_settings' = Len(heap) + 1
       ELSE UNCHANGED <<heap, cached_settings>>
    /\ held' = Append(held, cached_settings')
    /\ UNCHANGED <<downloadvars, tagvars, refvars, libvars>>

\* reference.ollama_library.verify_ssl = value
SetVerifySsl ==
    /\ \E r \in DOMAIN held, value \in BOOLEAN :
          heap' = [heap EXCEPT ![held[r]].verify_ssl = value]
    /\ UNCHANGED <<downloadvars, tagvars, refvars, libvars, held,
                   cached_settings>>

InitSettings ==
    /\ DownloadIdle
    /\ TagsIdle
    /\ RefsIdle
    /\ LibraryIdle
    /\ SettingsIdle

NextSettings ==
    \/ ConstructAppSettings
    \/ LoadOrCreateDefault
    \/ SetVerifySsl

SpecSettings == InitSettings /\ [][NextSettings]_vars

\* C34: every construction of AppSettings and every load_or_create_default
\* call returns the same instance, so a field changed through one reference
\* is observed through all of them.
C34_SettingsSingleton ==
    \A r1 \in DOMAIN held, r2 \in DOMAIN held :
        /\ held[r1] = held[r2]
        /\ heap[held[r1]].verify_ssl = heap[held[r2]].verify_ssl

\* ---------------------------------------------------------------------------
\* The library settings object: data_models.py OllamaLibrary, a model with
\* validate_assignment whose models_path is a DirectoryPath.  libs holds the
\* instances (their models_path), home_models_is_dir whether the default
\* path names a directory on this machine, and last_op the last operation:
\* the instance, the path given ("" for none), whether it raised, and the
\* models_path the instance had before it.
\* ---------------------------------------------------------------------------

MaxLibs == 2

default_models_path == "~/.ollama/models"

Paths == {default_models_path, ".", "/unstandard", "settings.json"}

\* Path.is_dir() on this machine: the working directory is a directory,
\* /unstandard does not exist and settings.json is a regular file.
is_dir(path) ==
    CASE path = "." -> TRUE
      [] path = default_models_path -> home_models_is_dir
      [] OTHER -> FALSE

\* OllamaLibrary() and OllamaLibrary(models_path=path): a given value is
\* validated as a DirectoryPath, the Field default is taken as it stands.
ConstructOllamaLibrary ==
    /\ Len(libs) < MaxLibs
    /\ \E given \in {""} \cup Paths :
          LET raised == given # "" /\ ~is_dir(given)
              value == IF given = "" THEN default_models_path ELSE given
          IN  /\ libs' = IF raised THEN libs
                         ELSE Append(libs, [models_path |-> value])
              /\ last_op' = [op |-> "construct", lib |-> Len(libs'),
                             path |-> given, raised |-> raised,
                             before |-> ""]
    /\ UNCHANGED <<downloadvars, tagvars, refvars, appvars,
                   home_models_is_dir>>

\* library.models_path = path: validate_assignment validates the value
\* before it is stored; a ValidationError leaves the instance as it was.
AssignModelsPath ==
    /\ \E i \in DOMAIN libs, path \in Paths :
          LET raised == ~is_dir(path)
          IN  /\ libs' = IF raised THEN libs
                         ELSE [libs EXCEPT ![i].models_path = path]
              /\ last_op' = [op |-> "assign", lib |-> i, path |-> path,
                             raised |-> raised,
                             before |-> libs[i].models_path]
    /\ UNCHANGED <<downloadvars, tagvars, refvars, appvars,
                   home_models_is_dir>>

InitLibrary ==
    /\ DownloadIdle
    /\ TagsIdle
    /\ RefsIdle
    /\ SettingsIdle
    /\ libs = << >>
    /\ home_models_is_dir \in BOOLEAN
    /\ last_op = NoOp

NextLibrary ==
    \/ ConstructOllamaLibrary
    \/ AssignModelsPath

SpecLibrary == InitLibrary /\ [][NextLibrary]_vars

\* What is known to be a directory without asking the object's validator.
ExistingDirectory(path) ==
    path = "." \/ (path = default_models_path /\ home_models_is_dir)

\* A construction with, or an assignment of, a path that is no directory
\* raised, and a failed assignment left the path the instance had.
C35_InvalidPathRejected ==
    /\ (last_op.op \in {"construct", "assign"} /\ last_op.path # ""
            /\ ~ExistingDirectory(last_op.path))
          => last_op.raised
    /\ (last_op.op = "assign" /\ last_op.raised)
          => libs[last_op.lib].models_path = last_op.before

\* C35: an OllamaLibrary holds a models_path only if it is an existing
\* directory; constructing with, or assigning, a path that is no directory
\* raises, and a failed assignment leaves the previous models_path.
C35_ModelsPathIsDirectory ==
    /\ \A i \in DOMAIN libs : ExistingDirectory(libs[i].models_path)
    /\ C35_InvalidPathRejected

\* ---------------------------------------------------------------------------
\* The pending-work set around the inventory check and the clean-up.
\* ---------------------------------------------------------------------------

\* download_model has ended on a failed inventory check, and no clean-up
\* has started since.
InventoryJustFailed ==
    /\ pc = "raised"
    /\ trace # << >>
    /\ Last(trace) = Event("inventory", 0, FALSE)

JustCleaned(c) ==
    /\ cpc[c] = "done"
    /\ c = "main" => cpc["handler"] \notin {"run", "done"}

\* The paths of the list a clean-up took that were no directory and whose
\* deletion failed: the path was not there to delete, or is still there.
DeletionFailed(c) ==
    {p \in snapshot[c] :
        /\ p \notin disk_at[c].dirs
        /\ p \notin disk_at[c].files \/ p \in files}

\* C37: after rollback() returns, the set holds exactly the previously
\* tracked non-directory paths whose deletion failed; every tracked
\* directory is out of the set, also when its removal from disk failed.
C37_SetAfterRollback ==
    \A c \in Contexts :
        JustCleaned(c) =>
            /\ Tracked(cself[c]) = DeletionFailed(c)
            /\ Tracked(cself[c]) \cap disk_at[c].dirs = {}

C37_Witness ==
    /\ JustCleaned("main")
    /\ \E d \in snapshot["main"] : d \in disk_at["main"].dirs /\ d \in dirs
    /\ \E p \in snapshot["main"] : p \in files /\ p \in Tracked(Main)
    /\ \E q \in snapshot["main"] :
          q \in disk_at["main"].files /\ q \notin files

\* ---------------------------------------------------------------------------
\* Progress.  The process is sequential: whichever frame runs (the main path,
\* or the handler on top of it) takes its next step for as long as it has
\* one.  The operator's interrupts are under no such obligation.
\* ---------------------------------------------------------------------------
Fairness ==
    /\ WF_vars(Cleanup)
    /\ WF_vars(RollbackOnFailure)
    /\ WF_vars(Exit)
    /\ WF_vars(HandlerExit)

SpecFair == Spec /\ Fairness

\* C38: every rollback() execution that sets the in-progress guard clears it
\* again on every way out of the function: a guard that is set is
\* eventually cleared, so that no later call finds a stale guard.
C38_GuardEventuallyCleared ==
    \A i \in Instances : cleanup_running[i] ~> ~cleanup_running[i]

\* The main path stands between two steps of download_model, or at its end.
AtStepBoundary ==
    /\ MainRuns
    /\ pc \in {"fetch_manifest", "download", "copy", "save_manifest",
               "tolerate", "inventory", "returned", "raised"}

\* C39: at every step boundary of download_model, and whenever a rollback
\* starts, each path in the pending-work set names a file or a directory
\* that exists on disk, also after a commit of a blob or of the manifest
\* that failed part-way.
C39_TrackedPathsExist ==
    /\ AtStepBoundary
          => \A inst \in Instances : Tracked(inst) \subseteq files \cup dirs
    /\ \A c \in Contexts :
          cpc[c] \in {"run", "done"}
              => snapshot[c] \subseteq disk_at[c].files \cup disk_at[c].dirs
====
